---- MODULE Spec2Model ----
(***************************************************************************)
(* Room reservations API (src/index.js): the inventory catalog, the        *)
(* interval overlap predicate, the availability search and the request     *)
(* handlers /reserve, /availability2, /update and /cancel over the         *)
(* reservations table.                                                     *)
(*                                                                         *)
(* A handler runs atomically from one await to the next, so /reserve is    *)
(* three kinds of step: the synchronous prefix (validation and the set-up  *)
(* of the search), one step per SELECT of findAvailableRoom, and the       *)
(* INSERT.  /update and /cancel issue one statement each.                  *)
(*                                                                         *)
(* Instants are integers (what Date.getTime and TIMESTAMPTZ comparison     *)
(* work on).  The columns equipment, created_at and updated_at are left    *)
(* out: no handler branches on them.                                       *)
(***************************************************************************)
EXTENDS Integers, Sequences, FiniteSets, TLC

VARIABLES store, nextId, procs, strictBinding, crud, probe, crudResp

vars == <<store, nextId, procs, strictBinding, crud, probe, crudResp>>

---------------------------------------------------------------------------
(* Bounds *)

\* Number of POST /reserve and GET /availability2 requests served (each by
\* its own run of the handler; the runs may overlap in time in any way).
NumProcs == 2
\* Number of POST /update and POST /cancel requests served.
MaxCrud == 1
\* Number of rows in the table when a search starts on a given table.
MaxRows == 1
\* Instants are 0..MaxTime.
MaxTime == 2

Procs == 1..NumProcs

---------------------------------------------------------------------------
(* JavaScript values *)

Null == "null"
Undefined == "undefined"
\* An absent startTime / endTime field.
NoTime == -1

Truthy(v) == v \notin {Null, Undefined, ""}

---------------------------------------------------------------------------
(* Inventory catalog *)

INVENTORY ==
  [ Library |->
      << [room |-> "L201", capacity |-> 5],
         [room |-> "L202", capacity |-> 8],
         [room |-> "L203", capacity |-> 10],
         [room |-> "L204", capacity |-> 12],
         [room |-> "L205", capacity |-> 15] >>,
    Engineering |->
      << [room |-> "E101", capacity |-> 5],
         [room |-> "E102", capacity |-> 7],
         [room |-> "E103", capacity |-> 9],
         [room |-> "E104", capacity |-> 12],
         [room |-> "E105", capacity |-> 15] >>,
    Science |->
      << [room |-> "S301", capacity |-> 5],
         [room |-> "S302", capacity |-> 6],
         [room |-> "S303", capacity |-> 8],
         [room |-> "S304", capacity |-> 10],
         [room |-> "S305", capacity |-> 14] >>,
    Business |->
      << [room |-> "B401", capacity |-> 5],
         [room |-> "B402", capacity |-> 6],
         [room |-> "B403", capacity |-> 9],
         [room |-> "B404", capacity |-> 11],
         [room |-> "B405", capacity |-> 15] >> ] @@
  ("Student Center" :>
      << [room |-> "SC501", capacity |-> 5],
         [room |-> "SC502", capacity |-> 7],
         [room |-> "SC503", capacity |-> 8],
         [room |-> "SC504", capacity |-> 12],
         [room |-> "SC505", capacity |-> 15] >>)

\* Object.keys(INVENTORY): insertion order.  (The file declares this
\* constant twice, at lines 50 and 63, with the same value.)
ALL_BUILDINGS == <<"Library", "Engineering", "Science", "Business", "Student Center">>

\* INVENTORY[b] || []
InventoryOf(b) == IF b \in DOMAIN INVENTORY THEN INVENTORY[b] ELSE <<>>

\* String(v).trim().toLowerCase() on the building names requests carry.
TrimLower(v) ==
  CASE v \in {"Library", "library", " Library "} -> "library"
    [] v \in {"Engineering", "engineering"} -> "engineering"
    [] v \in {"Science", "science"} -> "science"
    [] v \in {"Business", "business"} -> "business"
    [] v \in {"Student Center", "student center"} -> "student center"
    [] v \in {"Nowhere", "nowhere"} -> "nowhere"
    [] OTHER -> v

NAME_MAP ==
  [k \in {TrimLower(ALL_BUILDINGS[i]) : i \in 1..Len(ALL_BUILDINGS)} |->
     CHOOSE b \in DOMAIN INVENTORY : TrimLower(b) = k]

normalizeBuilding(v) ==
  IF ~Truthy(v) THEN Null
  ELSE IF TrimLower(v) \in DOMAIN NAME_MAP THEN NAME_MAP[TrimLower(v)]
  ELSE Undefined

---------------------------------------------------------------------------
(* Interval conflict predicate *)

\* A predicate that counts a shared boundary instant as an overlap.
overlapsClosed(existingStart, existingEnd, newStart, newEnd) ==
  (newStart <= existingEnd) /\ (existingStart <= newEnd)

\* new Date(x).getTime() of the four arguments, then the comparison.
overlaps(existingStart, existingEnd, newStart, newEnd) ==
  (newStart < existingEnd) /\ (existingStart < newEnd)

---------------------------------------------------------------------------
(* findAvailableRoom *)

NoRoom == [building |-> Null, room |-> Null, capacity |-> 0]

\* A building order that does not move the preferred building to the front.
buildingsToTryCatalogOrder(buildingOrNull, strict) ==
  IF Truthy(buildingOrNull) /\ strict THEN <<buildingOrNull>> ELSE ALL_BUILDINGS

buildingsToTry(buildingOrNull, strict) ==
  IF Truthy(buildingOrNull)
  THEN IF strict
       THEN <<buildingOrNull>>
       ELSE <<buildingOrNull>> \o SelectSeq(ALL_BUILDINGS, LAMBDA b : b # buildingOrNull)
  ELSE ALL_BUILDINGS

\* (INVENTORY[b] || []).filter(r => r.capacity >= groupSize)
eligibleRooms(b, groupSize) ==
  SelectSeq(InventoryOf(b), LAMBDA r : r.capacity >= groupSize)

\* SELECT ... WHERE building = $1 AND NOT (end_time <= $2 OR start_time >= $3)
takenRows(rows, b, startISO, endISO) ==
  {t \in rows : t.building = b /\ ~(t.end_time <= startISO \/ t.start_time >= endISO)}

\* taken.some(t => t.room === r.room && overlaps(...))
conflict(taken, r, startISO, endISO) ==
  \E t \in taken :
    t.room = r.room /\ overlaps(t.start_time, t.end_time, startISO, endISO)

\* A loop that keeps the last free room it meets.
lastFree(b, rooms, taken, startISO, endISO) ==
  LET free == {i \in 1..Len(rooms) : ~conflict(taken, rooms[i], startISO, endISO)}
  IN IF free = {} THEN NoRoom
     ELSE LET i == CHOOSE j \in free : \A k \in free : j >= k
          IN [building |-> b, room |-> rooms[i].room, capacity |-> rooms[i].capacity]

\* for (const r of rooms) { if (!conflict) return {...} }: the first free room.
firstFree(b, rooms, taken, startISO, endISO) ==
  LET free == {i \in 1..Len(rooms) : ~conflict(taken, rooms[i], startISO, endISO)}
  IN IF free = {} THEN NoRoom
     ELSE LET i == CHOOSE j \in free : \A k \in free : j <= k
          IN [building |-> b, room |-> rooms[i].room, capacity |-> rooms[i].capacity]

\* The loop's `if (rooms.length === 0) continue`: the first index >= i of a
\* building that has a capacity-eligible room, i.e. the next SELECT issued
\* (Len(btt) + 1 when the loop runs out).
RECURSIVE nextQuery(_, _, _)
nextQuery(btt, i, groupSize) ==
  IF i > Len(btt) THEN i
  ELSE IF Len(eligibleRooms(btt[i], groupSize)) = 0 THEN nextQuery(btt, i + 1, groupSize)
  ELSE i

\* The whole search against one snapshot of the table (no row changes
\* between its SELECTs).
RECURSIVE searchFrom(_, _, _, _, _, _)
searchFrom(rows, btt, i, groupSize, startISO, endISO) ==
  IF i > Len(btt) THEN NoRoom
  ELSE LET rooms == eligibleRooms(btt[i], groupSize)
           r == firstFree(btt[i], rooms, takenRows(rows, btt[i], startISO, endISO),
                          startISO, endISO)
       IN IF Len(rooms) = 0 \/ r = NoRoom
          THEN searchFrom(rows, btt, i + 1, groupSize, startISO, endISO)
          ELSE r

findAvailableRoom(rows, buildingOrNull, groupSize, startISO, endISO, strict) ==
  searchFrom(rows, buildingsToTry(buildingOrNull, strict), 1, groupSize, startISO, endISO)

---------------------------------------------------------------------------
(* The reservations table and the handlers' state *)

\* A row of the reservations table (status defaults to 'CONFIRMED').
Row(id, userId, building, room, groupSize, startTime, endTime) ==
  [reservation_id |-> id, user_id |-> userId, building |-> building, room |-> room,
   group_size |-> groupSize, start_time |-> startTime, end_time |-> endTime,
   status |-> "CONFIRMED"]

NoReq ==
  [userId |-> "", building |-> Null, groupSize |-> 0, startTime |-> NoTime,
   endTime |-> NoTime, strict |-> FALSE]

NoResp == [code |-> 0, body |-> "none", id |-> 0]

Idle ==
  [op |-> "none", pc |-> "idle", req |-> NoReq, idx |-> 0, chosen |-> NoRoom,
   resp |-> NoResp]

BuildingInputs == {Null, "Engineering"}
GroupSizeInputs == {6, 15, 16}
Times == 0..MaxTime

\* Requests with every required field present and a positive groupSize (the
\* window may be empty or reversed), and requests that lack a field or
\* carry a groupSize that is not positive.  req.body of POST /reserve and
\* req.query of GET /availability2 have the same fields; /availability2
\* does not read userId.
WellFormedBodies ==
  [userId : {"u1"}, building : BuildingInputs, groupSize : GroupSizeInputs,
   startTime : Times, endTime : Times, strict : BOOLEAN]

BaseBody ==
  [userId |-> "u1", building |-> Null, groupSize |-> 6, startTime |-> 0,
   endTime |-> 1, strict |-> FALSE]

MalformedBodies ==
  { [BaseBody EXCEPT !.userId = ""], [BaseBody EXCEPT !.groupSize = 0],
    [BaseBody EXCEPT !.groupSize = -1], [BaseBody EXCEPT !.startTime = NoTime],
    [BaseBody EXCEPT !.endTime = NoTime] }

Bodies == WellFormedBodies \cup MalformedBodies

\* What the free identifier `strict` of the /reserve handler evaluates to.
\* The handler neither declares it nor reads it from req.body: evaluating it
\* throws a ReferenceError unless the process has a global of that name.
StrictBindings == {"unbound", "true", "false"}

\* Two windows handed to overlaps, and its answers in both argument orders
\* ("none" until it is called).
NoProbe == [es |-> 0, ee |-> 0, ns |-> 0, ne |-> 0, fwd |-> "none", bwd |-> "none"]

\* A request to /update or /cancel and its response: the reservationId the
\* request named (0 when absent), the status of the response, and the rows
\* the statement matched (result.rowCount of them, as they were before the
\* statement).
NoCrudResp == [op |-> "none", code |-> 0, id |-> 0, matched |-> {}]

CrudResp(op, code, reservationId, matched) ==
  [op |-> op, code |-> code, id |-> reservationId, matched |-> matched]

InFlight == {p \in Procs : procs[p].pc \in {"search", "insert"}}

Init ==
  /\ store = {}
  /\ nextId = 1
  /\ procs = [p \in Procs |-> Idle]
  /\ strictBinding \in StrictBindings
  /\ crud = 0
  /\ crudResp = NoCrudResp
  /\ probe = NoProbe

\* The arguments the handler passes to findAvailableRoom: /reserve passes
\* the raw building and the free identifier strict, /availability2 the
\* normalized building and the parsed query flag.
SearchBuilding(op, req) ==
  IF op = "reserve" THEN req.building ELSE normalizeBuilding(req.building)

SearchStrict(op, req) ==
  IF op = "reserve" THEN strictBinding = "true" ELSE req.strict

SearchBtt(op, req) == buildingsToTry(SearchBuilding(op, req), SearchStrict(op, req))

Respond(p, op, body, room, code, what, id) ==
  procs' = [procs EXCEPT ![p] =
              [op |-> op, pc |-> "done", req |-> body, idx |-> 0, chosen |-> room,
               resp |-> [code |-> code, body |-> what, id |-> id]]]

\* The response of a search that found no room.
RespondNoRoom(p, op, body) ==
  IF op = "reserve"
  THEN Respond(p, op, body, NoRoom, 200, "No room available", 0)
  ELSE Respond(p, op, body, NoRoom, 200, "available: false", 0)

\* A loop over buildingsToTry that starts at its second entry.
BeginSearchAtSecond(p, op, body) ==
  LET btt == SearchBtt(op, body)
      i == nextQuery(btt, 2, body.groupSize)
  IN IF i > Len(btt)
     THEN RespondNoRoom(p, op, body)
     ELSE procs' = [procs EXCEPT ![p] =
                      [op |-> op, pc |-> "search", req |-> body, idx |-> i,
                       chosen |-> NoRoom, resp |-> NoResp]]

\* The synchronous prefix of findAvailableRoom: the first SELECT is issued
\* (not yet run), or the loop ends without one.
BeginSearch(p, op, body) ==
  LET btt == SearchBtt(op, body)
      i == nextQuery(btt, 1, body.groupSize)
  IN IF i > Len(btt)
     THEN RespondNoRoom(p, op, body)
     ELSE procs' = [procs EXCEPT ![p] =
                      [op |-> op, pc |-> "search", req |-> body, idx |-> i,
                       chosen |-> NoRoom, resp |-> NoResp]]

\* POST /reserve up to its first await.
ReserveStart(p, body) ==
  /\ procs[p].pc = "idle"
  /\ IF ~Truthy(body.userId) \/ body.groupSize = 0
        \/ body.startTime = NoTime \/ body.endTime = NoTime
     THEN Respond(p, "reserve", body, NoRoom, 400, "required", 0)
     ELSE IF body.groupSize <= 0
     THEN Respond(p, "reserve", body, NoRoom, 400, "positive", 0)
     ELSE IF strictBinding = "unbound"
     THEN Respond(p, "reserve", body, NoRoom, 400, "strict is not defined", 0)
     ELSE BeginSearch(p, "reserve", body)
  /\ UNCHANGED <<store, nextId, strictBinding, crud, probe, crudResp>>

\* GET /availability2 up to its first await.
AvailabilityStart(p, query) ==
  /\ procs[p].pc = "idle"
  /\ IF query.startTime = NoTime \/ query.endTime = NoTime \/ query.groupSize <= 0
     THEN Respond(p, "availability2", query, NoRoom, 400, "required", 0)
     ELSE BeginSearch(p, "availability2", query)
  /\ UNCHANGED <<store, nextId, strictBinding, crud, probe, crudResp>>

\* One SELECT of findAvailableRoom and the loop over its rows, up to the
\* next await (the next building's SELECT, or the INSERT of /reserve) or to
\* the response of /availability2.
Query(p) ==
  /\ procs[p].pc = "search"
  /\ LET op == procs[p].op
         req == procs[p].req
         btt == SearchBtt(op, req)
         b == btt[procs[p].idx]
         taken == takenRows(store, b, req.startTime, req.endTime)
         r == firstFree(b, eligibleRooms(b, req.groupSize), taken,
                        req.startTime, req.endTime)
         j == nextQuery(btt, procs[p].idx + 1, req.groupSize)
     IN IF r # NoRoom
        THEN IF op = "reserve"
             THEN procs' = [procs EXCEPT ![p].pc = "insert", ![p].chosen = r]
             ELSE Respond(p, op, req, r, 200, "available: true", 0)
        ELSE IF j > Len(btt)
        THEN RespondNoRoom(p, op, req)
        ELSE procs' = [procs EXCEPT ![p].idx = j]
  /\ UNCHANGED <<store, nextId, strictBinding, crud, probe, crudResp>>

\* An INSERT that stores the building the request named instead of the
\* building of the room the search returned.
ReserveInsertRequested(p) ==
  /\ procs[p].pc = "insert"
  /\ LET req == procs[p].req
         c == procs[p].chosen
     IN /\ store' = store \cup
             {Row(nextId, req.userId, req.building, c.room,
                  req.groupSize, req.startTime, req.endTime)}
        /\ Respond(p, "reserve", req, c, 200, "row", nextId)
  /\ nextId' = nextId + 1
  /\ UNCHANGED <<strictBinding, crud, probe, crudResp>>

\* INSERT INTO reservations ... RETURNING *, and the 200 response.
ReserveInsert(p) ==
  /\ procs[p].pc = "insert"
  /\ LET req == procs[p].req
         c == procs[p].chosen
     IN /\ store' = store \cup
             {Row(nextId, req.userId, normalizeBuilding(c.building), c.room,
                  req.groupSize, req.startTime, req.endTime)}
        /\ Respond(p, "reserve", req, c, 200, "row", nextId)
  /\ nextId' = nextId + 1
  /\ UNCHANGED <<strictBinding, crud, probe, crudResp>>

\* A read that is taken for "no rows" when the SELECT fails.
QueryFailsAsNoConflict(p) ==
  /\ procs[p].pc = "search"
  /\ LET op == procs[p].op
         req == procs[p].req
         b == SearchBtt(op, req)[procs[p].idx]
         r == firstFree(b, eligibleRooms(b, req.groupSize), {}, req.startTime, req.endTime)
     IN IF op = "reserve"
        THEN procs' = [procs EXCEPT ![p].pc = "insert", ![p].chosen = r]
        ELSE Respond(p, op, req, r, 200, "available: true", 0)
  /\ UNCHANGED <<store, nextId, strictBinding, crud, probe, crudResp>>

\* The SELECT of findAvailableRoom fails (store error, connection loss, a
\* timeout reported by the driver): pool.query rejects, the await throws out
\* of findAvailableRoom into the handler's catch, which answers 400 with
\* e.message.  (A query that never settles leaves the handler at its await:
\* no step.)
QueryFails(p) ==
  /\ procs[p].pc = "search"
  /\ Respond(p, procs[p].op, procs[p].req, NoRoom, 400, "store error", 0)
  /\ UNCHANGED <<store, nextId, strictBinding, crud, probe, crudResp>>

\* The INSERT of /reserve fails: the statement stores nothing, pool.query
\* rejects and the handler's catch answers 400 with e.message.
InsertFails(p) ==
  /\ procs[p].pc = "insert"
  /\ Respond(p, "reserve", procs[p].req, procs[p].chosen, 400, "store error", 0)
  /\ UNCHANGED <<store, nextId, strictBinding, crud, probe, crudResp>>

---------------------------------------------------------------------------
(* /update and /cancel *)

\* The fields of `updates` the handler keeps (allowed.includes(k)); a field
\* that is absent holds the column's "no value": Null, 0 or NoTime.
NoUpdates ==
  [building |-> Null, room |-> Null, groupSize |-> 0, startTime |-> NoTime,
   endTime |-> NoTime, status |-> Null]

UpdateInputs ==
  {NoUpdates}
    \cup {[NoUpdates EXCEPT !.building = b] : b \in {"Library"}}
    \cup {[NoUpdates EXCEPT !.room = r] : r \in {"L202", "L205"}}
    \cup {[NoUpdates EXCEPT !.groupSize = g] : g \in {7}}
    \cup {[NoUpdates EXCEPT !.startTime = t] : t \in Times}
    \cup {[NoUpdates EXCEPT !.endTime = t] : t \in Times}
    \cup {[NoUpdates EXCEPT !.status = "CANCELLED"]}

\* Reservation ids a request may name: 0 is an absent reservationId, and
\* NumProcs + 1 an id no row ever has.
IdInputs == 0..(NumProcs + 1)

\* UPDATE reservations SET <the given columns> WHERE reservation_id = $1
UpdateRow(t, updates) ==
  [reservation_id |-> t.reservation_id,
   user_id |-> t.user_id,
   building |-> IF updates.building # Null THEN updates.building ELSE t.building,
   room |-> IF updates.room # Null THEN updates.room ELSE t.room,
   group_size |-> IF updates.groupSize # 0 THEN updates.groupSize ELSE t.group_size,
   start_time |-> IF updates.startTime # NoTime THEN updates.startTime ELSE t.start_time,
   end_time |-> IF updates.endTime # NoTime THEN updates.endTime ELSE t.end_time,
   status |-> IF updates.status # Null THEN updates.status ELSE t.status]

\* POST /update: 400 without an id or without a valid field, else the
\* UPDATE statement (404 when it matches no row).
Update(reservationId, updates) ==
  /\ crud < MaxCrud
  /\ crud' = crud + 1
  /\ LET matched == {t \in store : t.reservation_id = reservationId}
     IN IF reservationId = 0 \/ updates = NoUpdates
        THEN /\ store' = store
             /\ crudResp' = CrudResp("update", 400, reservationId, {})
        ELSE /\ store' = {IF t \in matched THEN UpdateRow(t, updates) ELSE t : t \in store}
             /\ crudResp' = CrudResp("update", IF matched = {} THEN 404 ELSE 200,
                                     reservationId, matched)
  /\ UNCHANGED <<nextId, procs, strictBinding, probe>>

\* A cancellation that keeps the row and marks it CANCELLED.
CancelKeepsRow(reservationId) ==
  /\ crud < MaxCrud
  /\ crud' = crud + 1
  /\ LET matched == {t \in store : t.reservation_id = reservationId}
     IN IF reservationId = 0
        THEN /\ store' = store
             /\ crudResp' = CrudResp("cancel", 400, reservationId, {})
        ELSE /\ store' = {IF t \in matched THEN [t EXCEPT !.status = "CANCELLED"] ELSE t :
                            t \in store}
             /\ crudResp' = CrudResp("cancel", IF matched = {} THEN 404 ELSE 200,
                                     reservationId, matched)
  /\ UNCHANGED <<nextId, procs, strictBinding, probe>>

\* POST /cancel: 400 without an id, else the DELETE statement (404 when it
\* matches no row).
Cancel(reservationId) ==
  /\ crud < MaxCrud
  /\ crud' = crud + 1
  /\ LET matched == {t \in store : t.reservation_id = reservationId}
     IN IF reservationId = 0
        THEN /\ store' = store
             /\ crudResp' = CrudResp("cancel", 400, reservationId, {})
        ELSE /\ store' = store \ matched
             /\ crudResp' = CrudResp("cancel", IF matched = {} THEN 404 ELSE 200,
                                     reservationId, matched)
  /\ UNCHANGED <<nextId, procs, strictBinding, probe>>

---------------------------------------------------------------------------
(* Specifications *)

Reserve(p) ==
  \/ \E body \in Bodies : ReserveStart(p, body)
  \/ Query(p)
  \/ ReserveInsert(p)

Availability2(p) ==
  \/ \E query \in Bodies : AvailabilityStart(p, query)
  \/ Query(p)

Crud ==
  \/ \E id \in IdInputs, updates \in UpdateInputs : Update(id, updates)
  \/ \E id \in IdInputs : Cancel(id)

Next ==
  \/ \E p \in Procs : Reserve(p)
  \/ \E p \in Procs : Availability2(p)
  \/ Crud

\* The whole API, its handlers overlapping in any way.
Spec == Init /\ [][Next]_vars

NextReserve == \E p \in Procs : Reserve(p)

\* Concurrent POST /reserve requests alone.
SpecReserve == Init /\ [][NextReserve]_vars

\* POST /reserve, /update and /cancel, served one at a time: a request
\* arrives only when no handler is between two awaits.
NextCrud ==
  \/ \E p \in Procs : InFlight \subseteq {p} /\ Reserve(p)
  \/ InFlight = {} /\ Crud

SpecCrud == Init /\ [][NextCrud]_vars

\* Rows that POST /reserve inserts: the first capacity-eligible room of a
\* building for a group of 6 or 15, or the room after it, over a window.
TableRooms ==
  { <<"Library", "L202", 6>>, <<"Library", "L203", 6>>, <<"Library", "L205", 15>>,
    <<"Engineering", "E105", 15>> }

TableRowOf(k, startTime, endTime) ==
  Row(0, "u1", k[1], k[2], k[3], startTime, endTime)

TableRows ==
  { TableRowOf(k, w[1], w[2]) : k \in TableRooms, w \in {v \in Times \X Times : v[1] < v[2]} }

\* reservation_id is a fresh UUID per row: here the row's rank in the table.
RECURSIVE WithIds(_, _)
WithIds(rows, n) ==
  IF rows = {} THEN {}
  ELSE LET t == CHOOSE x \in rows : TRUE
       IN {[t EXCEPT !.reservation_id = n]} \cup WithIds(rows \ {t}, n + 1)

\* The sets of at most n rows.
RECURSIVE RowSets(_)
RowSets(n) ==
  IF n = 0 THEN {{}}
  ELSE LET S == RowSets(n - 1) IN S \cup {T \cup {t} : T \in S, t \in TableRows}

Tables == {WithIds(rows, 1) : rows \in RowSets(MaxRows)}

\* One search on a table that earlier reservations and cancellations left.
\* The table outlives the process (CREATE TABLE IF NOT EXISTS), so it may
\* hold rows whatever `strict` evaluates to in this process.
InitSearch ==
  /\ store \in Tables
  /\ nextId = Cardinality(store) + 1
  /\ procs = [p \in Procs |-> Idle]
  /\ strictBinding \in StrictBindings
  /\ crud = 0
  /\ crudResp = NoCrudResp
  /\ probe = NoProbe

\* The handler run that searches the given table.
SearchProc == CHOOSE p \in Procs : TRUE

NextSearch ==
  \/ Reserve(SearchProc)
  \/ Availability2(SearchProc)

SpecSearch == InitSearch /\ [][NextSearch]_vars

\* One POST /reserve on a given table, whose statements may fail.
NextFail ==
  \/ Reserve(SearchProc)
  \/ QueryFails(SearchProc)
  \/ InsertFails(SearchProc)

SpecFail == InitSearch /\ [][NextFail]_vars

\* Building names as clients write them: a name of no building, and catalog
\* names in another letter case or with surrounding blanks.
NameInputs == {"Nowhere", "engineering", " Library "}

NameBodies ==
  [userId : {"u1"}, building : NameInputs, groupSize : {6}, startTime : Times,
   endTime : Times, strict : BOOLEAN]

\* One POST /reserve or GET /availability2 with such a name, on a given table.
NextNames ==
  \/ \E body \in NameBodies : ReserveStart(SearchProc, body)
  \/ \E query \in NameBodies : AvailabilityStart(SearchProc, query)
  \/ Query(SearchProc)
  \/ ReserveInsert(SearchProc)

SpecNames == InitSearch /\ [][NextNames]_vars

\* Rows of the first two rooms of Library that seat a group of 6, and the
\* tables of at most MaxRows + 1 of them.
CancelRows ==
  { TableRowOf(k, w[1], w[2]) :
      k \in {<<"Library", "L202", 6>>, <<"Library", "L203", 6>>},
      w \in {v \in Times \X Times : v[1] < v[2]} }

RECURSIVE CancelRowSets(_)
CancelRowSets(n) ==
  IF n = 0 THEN {{}}
  ELSE LET S == CancelRowSets(n - 1) IN S \cup {T \cup {t} : T \in S, t \in CancelRows}

CancelTables == {WithIds(rows, 1) : rows \in CancelRowSets(MaxRows + 1)}

CancelQueries ==
  [userId : {"u1"}, building : {Null, "Library"}, groupSize : {6}, startTime : Times,
   endTime : Times, strict : BOOLEAN]

\* /cancel requests and one /availability2 search on a given table.  (The
\* search of /availability2 does not read the identifier strict of /reserve.)
InitCancel ==
  /\ store \in CancelTables
  /\ nextId = Cardinality(store) + 1
  /\ procs = [p \in Procs |-> Idle]
  /\ strictBinding = "unbound"
  /\ crud = 0
  /\ crudResp = NoCrudResp
  /\ probe = NoProbe

NextCancel ==
  \/ \E id \in IdInputs : Cancel(id)
  \/ \E query \in CancelQueries : AvailabilityStart(SearchProc, query)
  \/ Query(SearchProc)

SpecCancel == InitCancel /\ [][NextCancel]_vars

\* overlaps on every pair of windows, empty and reversed ones included.
InitOverlap ==
  /\ store = {}
  /\ nextId = 1
  /\ procs = [p \in Procs |-> Idle]
  /\ strictBinding = "unbound"
  /\ crud = 0
  /\ crudResp = NoCrudResp
  /\ probe \in [es : Times, ee : Times, ns : Times, ne : Times,
                fwd : {"none"}, bwd : {"none"}]

CallOverlaps ==
  /\ probe.fwd = "none"
  /\ probe' = [probe EXCEPT
                 !.fwd = IF overlaps(probe.es, probe.ee, probe.ns, probe.ne)
                         THEN "true" ELSE "false",
                 !.bwd = IF overlaps(probe.ns, probe.ne, probe.es, probe.ee)
                         THEN "true" ELSE "false"]
  /\ UNCHANGED <<store, nextId, procs, strictBinding, crud, crudResp>>

SpecOverlap == InitOverlap /\ [][CallOverlaps]_vars

---------------------------------------------------------------------------
(* Properties *)

\* Two rows are CONFIRMED reservations of the same room of the same
\* building over half-open windows that overlap.
DoubleBooked(t1, t2) ==
  /\ t1.reservation_id # t2.reservation_id
  /\ t1.building = t2.building /\ t1.room = t2.room
  /\ t1.status = "CONFIRMED" /\ t2.status = "CONFIRMED"
  /\ t1.start_time < t2.end_time /\ t2.start_time < t1.end_time

NoDoubleBooking(rows) == \A t1, t2 \in rows : ~DoubleBooked(t1, t2)

\* The request fields /reserve requires are present and groupSize is positive.
WellFormed(req) ==
  /\ Truthy(req.userId) /\ req.groupSize > 0
  /\ req.startTime # NoTime /\ req.endTime # NoTime

C3_CrudKeepsNoDoubleBooking ==
  [][(crud' # crud /\ NoDoubleBooking(store)) => NoDoubleBooking(store')]_vars

\* C4: overlaps gives the same answer in both argument orders, is true of a
\* window with start < end and itself, and is false of two windows of
\* which one ends at the instant the other starts.
C4_OverlapsSymmetricReflexiveHalfOpen ==
  probe.fwd # "none" =>
    /\ probe.fwd = probe.bwd
    /\ (probe.es < probe.ee /\ probe.ns = probe.es /\ probe.ne = probe.ee)
         => probe.fwd = "true"
    /\ (probe.ee = probe.ns \/ probe.ne = probe.es) => probe.fwd = "false"

\* overlaps has answered for two windows with start < end that share only
\* the instant at which the first ends and the second starts.
C4_Witness ==
  /\ probe.fwd = "false"
  /\ probe.es < probe.ee /\ probe.ee = probe.ns /\ probe.ns < probe.ne

\* Some row books the room over a window that overlaps [startTime, endTime).
RoomBooked(rows, b, room, startTime, endTime) ==
  \E t \in rows :
    t.building = b /\ t.room = room /\ t.start_time < endTime /\ startTime < t.end_time

\* Building b has a room of the catalog that seats the group and is not booked.
HasFreeRoom(rows, b, groupSize, startTime, endTime) ==
  \E i \in 1..Len(InventoryOf(b)) :
    /\ InventoryOf(b)[i].capacity >= groupSize
    /\ ~RoomBooked(rows, b, InventoryOf(b)[i].room, startTime, endTime)

\* The search of handler run p has returned a room and the table is as the
\* search read it (the INSERT of /reserve has not run).
Found(p) ==
  /\ procs[p].chosen # NoRoom
  /\ procs[p].pc = "insert" \/ procs[p].op = "availability2"

\* The search of handler run p has returned null.
FoundNone(p) ==
  /\ procs[p].pc = "done"
  /\ procs[p].resp.body \in {"No room available", "available: false"}

\* C5: the room findAvailableRoom returns is a room of the catalog of its
\* building, seats the group, has no stored reservation overlapping the
\* requested window, and every room listed before it in that building that
\* seats the group has one.
C5_FirstFitInCatalogOrder ==
  \A p \in Procs :
    Found(p) =>
      LET c == procs[p].chosen
          req == procs[p].req
          cat == InventoryOf(c.building)
      IN \E i \in 1..Len(cat) :
           /\ cat[i].room = c.room /\ cat[i].capacity = c.capacity
           /\ c.capacity >= req.groupSize
           /\ ~RoomBooked(store, c.building, c.room, req.startTime, req.endTime)
           /\ \A j \in 1..(i - 1) :
                cat[j].capacity >= req.groupSize =>
                  RoomBooked(store, c.building, cat[j].room, req.startTime, req.endTime)

\* A search for a group of 6 returned L203: L201 is too small and L202 is
\* booked over the window.
C5_Witness ==
  \E p \in Procs :
    /\ Found(p)
    /\ procs[p].req.groupSize = 6
    /\ procs[p].chosen = [building |-> "Library", room |-> "L203", capacity |-> 10]
    /\ RoomBooked(store, "Library", "L202", procs[p].req.startTime, procs[p].req.endTime)

\* The first room of the search policy for a request: the first room that
\* seats the group in the first building tried that has one.
PolicyFirst(op, req) ==
  LET btt == SearchBtt(op, req)
      b == btt[nextQuery(btt, 1, req.groupSize)]
      r == eligibleRooms(b, req.groupSize)[1]
  IN [building |-> b, room |-> r.room, capacity |-> r.capacity]

\* The rows of the table other than the one handler run p inserted.
RowsBefore(p) == {t \in store : t.reservation_id # procs[p].resp.id}

\* C6: a request with a known building preference and strict = true is
\* searched in that building alone: it is answered 200, any room it gets is
\* in the preferred building, and it gets the no-room answer when every
\* room of that building that seats the group is booked over the window.
C6_StrictConfinesSearch ==
  \A p \in Procs :
    (/\ procs[p].pc = "done"
     /\ procs[p].resp.body \notin {"required", "positive"}
     /\ procs[p].req.startTime < procs[p].req.endTime
     /\ procs[p].req.strict
     /\ normalizeBuilding(procs[p].req.building) \in DOMAIN INVENTORY)
    => LET req == procs[p].req
           b == normalizeBuilding(req.building)
       IN /\ procs[p].resp.code = 200
          /\ procs[p].chosen # NoRoom => procs[p].chosen.building = b
          /\ ~HasFreeRoom(RowsBefore(p), b, req.groupSize, req.startTime, req.endTime)
               => FoundNone(p)

\* Building b1 is tried before building b2 by a search that is not strict.
TriedBefore(b1, b2, pref) ==
  /\ b1 # b2
  /\ \/ b1 = pref
     \/ /\ b2 # pref
        /\ \E i, j \in 1..Len(ALL_BUILDINGS) :
             i < j /\ ALL_BUILDINGS[i] = b1 /\ ALL_BUILDINGS[j] = b2

\* C7: a search that is not strict tries the preferred building first and
\* then every other building in catalog order, each once (all buildings in
\* catalog order without a preference): a returned room is in a building no
\* building tried before which has a free room that seats the group, and
\* null is returned only when no building has one.
C7_PreferredThenCatalogOrder ==
  \A p \in Procs :
    LET op == procs[p].op
        req == procs[p].req
        pref == SearchBuilding(op, req)
        btt == SearchBtt(op, req)
    IN (op # "none" /\ ~SearchStrict(op, req)) =>
         /\ procs[p].pc = "search" =>
              /\ \A i, j \in 1..Len(btt) : i # j => btt[i] # btt[j]
              /\ {btt[i] : i \in 1..Len(btt)} = DOMAIN INVENTORY
              /\ Truthy(pref) => btt[1] = pref
         /\ Found(p) =>
              \A b \in DOMAIN INVENTORY :
                TriedBefore(b, procs[p].chosen.building, pref) =>
                  ~HasFreeRoom(store, b, req.groupSize, req.startTime, req.endTime)
         /\ FoundNone(p) =>
              \A b \in DOMAIN INVENTORY :
                ~HasFreeRoom(store, b, req.groupSize, req.startTime, req.endTime)

\* A search that prefers Engineering and is not strict returned a room of
\* Library, the first building of the catalog: Engineering's only room for
\* 15 is booked over the window.
C7_Witness ==
  \E p \in Procs :
    /\ Found(p)
    /\ ~SearchStrict(procs[p].op, procs[p].req)
    /\ SearchBuilding(procs[p].op, procs[p].req) = "Engineering"
    /\ procs[p].req.groupSize = 15
    /\ procs[p].chosen.building = "Library"
    /\ RoomBooked(store, "Engineering", "E105", procs[p].req.startTime, procs[p].req.endTime)

\* C8: a /reserve request for [t2, t3) whose first room by the search
\* policy is X, booked until exactly t2 and not booked over [t2, t3), is
\* granted X.
C8_BackToBackGranted ==
  \A p \in Procs :
    LET req == procs[p].req
        x == PolicyFirst("reserve", req)
    IN (/\ procs[p].op = "reserve" /\ procs[p].pc = "done"
        /\ WellFormed(req) /\ req.startTime < req.endTime
        /\ \E b \in DOMAIN INVENTORY : Len(eligibleRooms(b, req.groupSize)) > 0
        /\ \E t \in RowsBefore(p) :
             t.building = x.building /\ t.room = x.room /\ t.end_time = req.startTime
        /\ ~RoomBooked(RowsBefore(p), x.building, x.room, req.startTime, req.endTime))
       => procs[p].resp.body = "row" /\ procs[p].chosen = x

\* The search of handler run p ends in this step.
SearchEnds(p) ==
  /\ procs[p].pc \in {"idle", "search"}
  /\ \/ procs'[p].pc = "insert"
     \/ /\ procs'[p].pc = "done"
        /\ procs'[p].resp.body \in {"No room available", "available: false", "available: true"}

\* C9: a step of the availability search leaves the table as it is, and the
\* candidate it ends with is findAvailableRoom of the table and the
\* request's inputs alone (so two searches with the same inputs on the same
\* table return the same candidate).
C9_SearchReadOnlyDeterministic ==
  [][\A p \in Procs :
       (procs[p].pc \in {"idle", "search"} /\ procs'[p] # procs[p]) =>
         /\ store' = store /\ nextId' = nextId
         /\ SearchEnds(p) =>
              procs'[p].chosen =
                findAvailableRoom(store, SearchBuilding(procs'[p].op, procs'[p].req),
                                  procs'[p].req.groupSize, procs'[p].req.startTime,
                                  procs'[p].req.endTime,
                                  SearchStrict(procs'[p].op, procs'[p].req))]_vars

\* /availability2 answered with a room of the second building it tried, on
\* a table with rows.
C9_Witness ==
  \E p \in Procs :
    /\ procs[p].op = "availability2" /\ procs[p].resp.body = "available: true"
    /\ store # {}
    /\ procs[p].chosen.building = "Library" /\ procs[p].req.building = "Engineering"

Candidates(req) ==
  IF req.strict /\ normalizeBuilding(req.building) \in DOMAIN INVENTORY
  THEN {normalizeBuilding(req.building)}
  ELSE DOMAIN INVENTORY

\* The request of handler run p passed the handler's validation.
Validated(p) ==
  /\ procs[p].op # "none"
  /\ procs[p].resp.body \notin {"required", "positive"}

\* C11: a validated /reserve or /availability2 request for which no room of
\* a building to be searched seats the group and is free over the window
\* is answered with the no-room response, a 200 (validation and system
\* errors are 400s), and stores nothing.
C11_NoRoomIsExplicitOutcome ==
  \A p \in Procs :
    (/\ procs[p].pc = "done" /\ Validated(p)
     /\ \A b \in Candidates(procs[p].req) :
          ~HasFreeRoom(RowsBefore(p), b, procs[p].req.groupSize,
                       procs[p].req.startTime, procs[p].req.endTime))
    => /\ FoundNone(p)
       /\ procs[p].resp.code = 200
       /\ RowsBefore(p) = store

\* The rows that were in the table when handler run p ran its INSERT (ids
\* are handed out in the order of the INSERTs).
RowsAtCommit(p) == {t \in store : t.reservation_id < procs[p].resp.id}

Answered(p) ==
  /\ procs[p].pc = "done" /\ Validated(p)
  /\ procs[p].resp.body # "strict is not defined"

\* C14: a request whose building preference names no building of the
\* catalog gets the no-room answer and stores nothing when its search is
\* strict, and is searched as a request without preference (all buildings
\* in catalog order) when it is not; for /reserve and for /availability2.
C14_UnknownBuilding ==
  \A p \in Procs :
    LET op == procs[p].op
        req == procs[p].req
    IN (/\ Answered(p)
        /\ Truthy(req.building)
        /\ normalizeBuilding(req.building) \notin DOMAIN INVENTORY)
       => IF SearchStrict(op, req)
          THEN FoundNone(p) /\ RowsBefore(p) = store
          ELSE procs[p].chosen =
                 findAvailableRoom(RowsBefore(p), Null, req.groupSize, req.startTime,
                                   req.endTime, FALSE)

C16_StoredRowsAreConfirmed ==
  \A t \in store : t.status = "CONFIRMED"

\* The rows handler run p stored.
RowsOf(p) == {t \in store : t.reservation_id = procs[p].resp.id}

\* C17: a /reserve request with userId, a positive groupSize and
\* startTime < endTime, for which a building to be searched has a room that
\* seats the group and is free over the window, ends with one row stored
\* and returned to the caller, whatever its building preference and strict
\* flag.
C17_ValidRequestIsGranted ==
  \A p \in Procs :
    LET req == procs[p].req
    IN (/\ procs[p].op = "reserve" /\ procs[p].pc = "done"
        /\ WellFormed(req) /\ req.startTime < req.endTime
        /\ \E b \in Candidates(req) :
             HasFreeRoom(RowsBefore(p), b, req.groupSize, req.startTime, req.endTime))
       => /\ procs[p].resp.code = 200 /\ procs[p].resp.body = "row"
          /\ Cardinality(RowsOf(p)) = 1

FirstFit(rows, b, room, groupSize, startTime, endTime) ==
  \E i \in 1..Len(InventoryOf(b)) :
    /\ InventoryOf(b)[i].room = room
    /\ InventoryOf(b)[i].capacity >= groupSize
    /\ ~RoomBooked(rows, b, room, startTime, endTime)
    /\ \A j \in 1..(i - 1) :
         InventoryOf(b)[j].capacity >= groupSize =>
           RoomBooked(rows, b, InventoryOf(b)[j].room, startTime, endTime)

\* C19: /cancel with the id of a stored reservation removes that row and no
\* other and answers 200; with an id no row has it answers 404 and leaves
\* the table as it is; and a search of the cancelled row's building for its
\* window, run after the cancellation, offers the room again when it is the
\* first fit among the other reservations.
C19_CancelRemovesExactlyOne ==
  [][/\ (crud' # crud /\ crudResp'.op = "cancel") =>
          LET hit == {t \in store : t.reservation_id = crudResp'.id}
          IN IF hit # {}
             THEN /\ crudResp'.code = 200
                  /\ Cardinality(hit) = 1
                  /\ store' = store \ hit
                  /\ Cardinality(store') = Cardinality(store) - 1
             ELSE /\ store' = store
                  /\ crudResp'.code = IF crudResp'.id = 0 THEN 400 ELSE 404
     /\ \A p \in Procs : \A t \in crudResp.matched :
          (/\ crudResp.op = "cancel" /\ crudResp.code = 200
           /\ procs[p].pc = "search" /\ procs'[p] # procs[p]
           /\ SearchBtt(procs[p].op, procs[p].req)[procs[p].idx] = t.building
           /\ procs[p].req.startTime = t.start_time
           /\ procs[p].req.endTime = t.end_time
           /\ FirstFit({u \in store : u.reservation_id # t.reservation_id},
                       t.building, t.room, procs[p].req.groupSize,
                       t.start_time, t.end_time))
          => /\ procs'[p].chosen.building = t.building
             /\ procs'[p].chosen.room = t.room]_vars

\* The reservation of L203 over a window was cancelled while L202 stays
\* booked over that window, and a later search for the window is offered
\* L203.
C19_Witness ==
  \E p \in Procs : \E t \in crudResp.matched :
    /\ crudResp.op = "cancel" /\ crudResp.code = 200
    /\ t.room = "L203" /\ t \notin store
    /\ procs[p].resp.body = "available: true"
    /\ procs[p].chosen.room = "L203"
    /\ procs[p].req.startTime = t.start_time /\ procs[p].req.endTime = t.end_time
    /\ RoomBooked(store, "Library", "L202", t.start_time, t.end_time)

====
